---- MODULE Spec2Model ----
(***************************************************************************)
(* Model of the feedback worker (src/src/index.ts) and of the table it     *)
(* reads and writes (schema and seed rows in src/unnamed/part_000).        *)
(*                                                                         *)
(* Strings are sequences of one-character strings, so that split, trim and *)
(* includes are computed character by character as JavaScript does.  The   *)
(* customer text is never inspected beyond its truthiness, so a customer   *)
(* text is written as a one-element sequence holding the whole text.       *)
(* SQL NULL / JavaScript null and undefined are the value NULL.            *)
(***************************************************************************)
EXTENDS Naturals, Sequences, FiniteSets

VARIABLES
    store,      \* the feedback table: a set of rows [id, customer_text, sentiment, summary]
    method,     \* per request: the HTTP method, "none" before the request arrives
    text,       \* per request: formData.get('feedback')
    pc,         \* per request: the await the handler is suspended at, or how it ended
    writes,     \* per request: the INSERT statements it has run, each with its outcome
    ai,         \* per request: the env.AI.run calls it has made, each by its outcome
    response,   \* per request: the Response the handler returned
    results,    \* per request: the rows its SELECT returned
    stats,      \* per request: the three dashboard counts it computed
    rawText,    \* parser harness: the raw model output under test
    parsed,     \* parser harness: the (sentiment, summary) computed from rawText
    rows,       \* dashboard harness: the rows under test
    tally       \* dashboard harness: the counts computed from rows

vars == <<store, method, text, pc, writes, ai, response, results, stats,
          rawText, parsed, rows, tally>>

pipelineVars == <<store, method, text, pc, writes, ai, response, results, stats>>
parserVars == <<rawText, parsed>>
dashboardVars == <<rows, tally>>

\* ------------------------------------------------------------------ bounds

NumReqs == 2
MaxLen == 5
MaxRows == 3

\* ----------------------------------------------------------------- strings

NULL == <<"NULL">>
EmptyStr == << >>

Positive == <<"P", "o", "s", "i", "t", "i", "v", "e">>
Negative == <<"N", "e", "g", "a", "t", "i", "v", "e">>
Neutral == <<"N", "e", "u", "t", "r", "a", "l">>
ErrorLabel == <<"E", "r", "r", "o", "r">>
ErrorSummary == <<"A", "I", " ", "a", "n", "a", "l", "y", "s", "i", "s", " ",
                  "f", "a", "i", "l", "e", "d">>

\* ECMAScript WhiteSpace and LineTerminator characters that can occur here.
Whitespace == {" ", "\t", "\n", "\r"}

\* Mutant of Truthy: only null is falsy, the empty string counts as text.
TruthyUnlessNull(s) == s # NULL

\* JavaScript truthiness of a string-or-null value.
Truthy(s) == s # NULL /\ s # EmptyStr

\* a || b
OrElse(a, b) == IF Truthy(a) THEN a ELSE b

RECURSIVE TrimStart(_)
TrimStart(s) ==
    IF s # EmptyStr /\ Head(s) \in Whitespace THEN TrimStart(Tail(s)) ELSE s

RECURSIVE TrimEnd(_)
TrimEnd(s) ==
    IF s # EmptyStr /\ s[Len(s)] \in Whitespace
    THEN TrimEnd(SubSeq(s, 1, Len(s) - 1))
    ELSE s

\* String.prototype.trim
Trim(s) == TrimEnd(TrimStart(s))

\* String.prototype.indexOf for a one-character needle, 1-based; 0 when absent.
IndexOf(s, c) ==
    IF \E i \in 1..Len(s) : s[i] = c
    THEN CHOOSE i \in 1..Len(s) : s[i] = c /\ \A j \in 1..(i - 1) : s[j] # c
    ELSE 0

\* String.prototype.split with a one-character separator and no limit:
\* the string is cut at EVERY occurrence of the separator.
RECURSIVE Split(_, _)
Split(s, c) ==
    IF IndexOf(s, c) = 0
    THEN <<s>>
    ELSE <<SubSeq(s, 1, IndexOf(s, c) - 1)>>
         \o Split(SubSeq(s, IndexOf(s, c) + 1, Len(s)), c)

\* parts[i] of a JavaScript array (0-based); undefined when out of range.
At(parts, i) == IF i + 1 \in 1..Len(parts) THEN parts[i + 1] ELSE NULL

\* Mutant of Includes: equality with the label instead of containment.
IncludesAsEquality(s, sub) == s = sub

\* String.prototype.includes
RECURSIVE Includes(_, _)
Includes(s, sub) ==
    IF Len(s) < Len(sub) THEN FALSE
    ELSE IF SubSeq(s, 1, Len(sub)) = sub THEN TRUE
    ELSE Includes(Tail(s), sub)

\* ------------------------------------------------------------------ parser

\* const rawText = (aiResponse as any).response || "";
RawOf(resp) == OrElse(resp, EmptyStr)

ParseSentiment(raw) ==
    LET parts == Split(raw, "|")
    IN  IF Truthy(At(parts, 0)) THEN Trim(At(parts, 0)) ELSE Neutral

ParseSummary(raw) ==
    LET parts == Split(raw, "|")
    IN  IF Truthy(At(parts, 1)) THEN Trim(At(parts, 1)) ELSE raw

Parse(raw) == [sentiment |-> ParseSentiment(raw), summary |-> ParseSummary(raw)]

\* ------------------------------------------------------------------- store

Row(id, ct, s, m) == [id |-> id, customer_text |-> ct, sentiment |-> s, summary |-> m]

\* The three seed rows: INSERT INTO feedback (customer_text) VALUES ...;
\* sentiment and summary are left NULL, ids are assigned 1, 2, 3.
SeedRows ==
    { Row(1, <<"The login page keeps crashing when I use Firefox. It is super frustrating!">>, NULL, NULL),
      Row(2, <<"I love the new dark mode, it looks amazing. Great job team!">>, NULL, NULL),
      Row(3, <<"The API documentation is outdated and very confusing.">>, NULL, NULL) }

MaxId(t) == CHOOSE i \in {r.id : r \in t} : \A r \in t : r.id <= i

\* id INTEGER PRIMARY KEY: an INSERT without id gets the largest id plus one.
NextId(t) == IF t = {} THEN 1 ELSE MaxId(t) + 1

\* Mutant of Insert: the statement overwrites the newest row (INSERT OR
\* REPLACE with the last id) instead of appending a new one.
InsertOverLast(t, ct, s, m) ==
    IF t = {} THEN {Row(1, ct, s, m)}
    ELSE {r \in t : r.id # MaxId(t)} \cup {Row(MaxId(t), ct, s, m)}

\* INSERT INTO feedback (customer_text, sentiment, summary) VALUES (?, ?, ?)
Insert(t, ct, s, m) == t \cup {Row(NextId(t), ct, s, m)}

\* SELECT * FROM feedback ORDER BY id DESC
RECURSIVE SelectAllDesc(_)
SelectAllDesc(t) ==
    IF t = {} THEN << >>
    ELSE LET top == CHOOSE r \in t : r.id = MaxId(t)
         IN  <<top>> \o SelectAllDesc(t \ {top})

\* --------------------------------------------------------------- dashboard

\* results.filter((r) => (r.sentiment || '').includes(label)).length
RECURSIVE CountLabel(_, _)
CountLabel(rs, label) ==
    IF rs = << >> THEN 0
    ELSE (IF Includes(OrElse(Head(rs).sentiment, EmptyStr), label) THEN 1 ELSE 0)
         + CountLabel(Tail(rs), label)

Summarize(rs) ==
    [positive |-> CountLabel(rs, Positive),
     negative |-> CountLabel(rs, Negative),
     neutral  |-> CountLabel(rs, Neutral)]

\* ---------------------------------------------------------------- requests

Reqs == 1..NumReqs

\* Values of the 'feedback' form field: absent, empty, or some text.
FormTexts == {NULL, EmptyStr, <<"X">>, <<"Y">>}

\* Values of the 'response' property of what env.AI.run resolves with:
\* missing, "", "Positive | Great app", "Negative|slow|ui", " | ok", "Mixed".
ModelResponses ==
    { NULL,
      EmptyStr,
      <<"P", "o", "s", "i", "t", "i", "v", "e", " ", "|", " ",
        "G", "r", "e", "a", "t", " ", "a", "p", "p">>,
      <<"N", "e", "g", "a", "t", "i", "v", "e", "|", "s", "l", "o", "w", "|", "u", "i">>,
      <<" ", "|", " ", "o", "k">>,
      <<"M", "i", "x", "e", "d">> }

NoStats == [positive |-> 0, negative |-> 0, neutral |-> 0]

\* One run of a prepared INSERT: the bound values and the state of its promise.
Statement(ct, s, m, outcome) ==
    [customer_text |-> ct, sentiment |-> s, summary |-> m, outcome |-> outcome]

\* The statement of request r that is still awaited.
Pending(r) == writes[r][Len(writes[r])]

Settle(r, outcome) ==
    [writes EXCEPT ![r][Len(writes[r])].outcome = outcome]

PipelineInit ==
    /\ store = SeedRows
    /\ method = [r \in Reqs |-> "none"]
    /\ text = [r \in Reqs |-> NULL]
    /\ pc = [r \in Reqs |-> "idle"]
    /\ writes = [r \in Reqs |-> << >>]
    /\ ai = [r \in Reqs |-> << >>]
    /\ response = [r \in Reqs |-> "none"]
    /\ results = [r \in Reqs |-> << >>]
    /\ stats = [r \in Reqs |-> NoStats]

\* POST with an empty or absent 'feedback' field: the if (text) block is
\* skipped and the redirect is returned.
PostEmpty(r, t) ==
    /\ pc[r] = "idle"
    /\ ~Truthy(t)
    /\ method' = [method EXCEPT ![r] = "POST"]
    /\ text' = [text EXCEPT ![r] = t]
    /\ pc' = [pc EXCEPT ![r] = "done"]
    /\ response' = [response EXCEPT ![r] = "redirect303"]
    /\ UNCHANGED <<store, writes, ai, results, stats>>

\* POST with feedback text: env.AI.run is called and awaited.
PostText(r, t) ==
    /\ pc[r] = "idle"
    /\ Truthy(t)
    /\ method' = [method EXCEPT ![r] = "POST"]
    /\ text' = [text EXCEPT ![r] = t]
    /\ ai' = [ai EXCEPT ![r] = Append(@, "pending")]
    /\ pc' = [pc EXCEPT ![r] = "ai"]
    /\ UNCHANGED <<store, writes, response, results, stats>>

\* env.AI.run resolves: the response is parsed and the INSERT is run.
AiSucceeds(r, resp) ==
    /\ pc[r] = "ai"
    /\ LET raw == RawOf(resp)
       IN  writes' = [writes EXCEPT ![r] =
               Append(@, Statement(text[r], ParseSentiment(raw), ParseSummary(raw), "pending"))]
    /\ ai' = [ai EXCEPT ![r][Len(ai[r])] = "resolved"]
    /\ pc' = [pc EXCEPT ![r] = "insert"]
    /\ UNCHANGED <<store, method, text, response, results, stats>>

\* Mutant of CatchInsert: the catch block stores the fallback label of the
\* parser instead of the error label.
CatchInsertNeutral(r, ws) ==
    Append(ws, Statement(text[r], Neutral, ErrorSummary, "pending"))

\* What the catch block does: it runs the INSERT of the error row.
CatchInsert(r, ws) ==
    Append(ws, Statement(text[r], ErrorLabel, ErrorSummary, "pending"))

\* Mutant of AiFails: the catch block swallows the failure without writing.
AiFailsNoWrite(r) ==
    /\ pc[r] = "ai"
    /\ ai' = [ai EXCEPT ![r][Len(ai[r])] = "rejected"]
    /\ pc' = [pc EXCEPT ![r] = "done"]
    /\ response' = [response EXCEPT ![r] = "redirect303"]
    /\ UNCHANGED <<store, method, text, writes, results, stats>>

\* env.AI.run rejects: control passes to the catch block.
AiFails(r) ==
    /\ pc[r] = "ai"
    /\ writes' = [writes EXCEPT ![r] = CatchInsert(r, @)]
    /\ ai' = [ai EXCEPT ![r][Len(ai[r])] = "rejected"]
    /\ pc' = [pc EXCEPT ![r] = "fallback"]
    /\ UNCHANGED <<store, method, text, response, results, stats>>

\* Mutant of InsertSucceeds: the error INSERT runs after the try block
\* whether or not it threw (finally instead of catch).
InsertSucceedsThenCatch(r) ==
    /\ pc[r] = "insert"
    /\ store' = Insert(store, Pending(r).customer_text, Pending(r).sentiment,
                       Pending(r).summary)
    /\ writes' = [writes EXCEPT ![r] = CatchInsert(r, Settle(r, "ok")[r])]
    /\ pc' = [pc EXCEPT ![r] = "fallback"]
    /\ UNCHANGED <<method, text, ai, response, results, stats>>

\* The INSERT in the try block resolves: the row is stored, the redirect returned.
InsertSucceeds(r) ==
    /\ pc[r] = "insert"
    /\ store' = Insert(store, Pending(r).customer_text, Pending(r).sentiment,
                       Pending(r).summary)
    /\ writes' = Settle(r, "ok")
    /\ pc' = [pc EXCEPT ![r] = "done"]
    /\ response' = [response EXCEPT ![r] = "redirect303"]
    /\ UNCHANGED <<method, text, ai, results, stats>>

\* The INSERT in the try block rejects: control passes to the catch block.
InsertFails(r) ==
    /\ pc[r] = "insert"
    /\ writes' = [writes EXCEPT ![r] = CatchInsert(r, Settle(r, "failed")[r])]
    /\ pc' = [pc EXCEPT ![r] = "fallback"]
    /\ UNCHANGED <<store, method, text, ai, response, results, stats>>

\* The INSERT in the catch block resolves.
FallbackSucceeds(r) ==
    /\ pc[r] = "fallback"
    /\ store' = Insert(store, Pending(r).customer_text, Pending(r).sentiment,
                       Pending(r).summary)
    /\ writes' = Settle(r, "ok")
    /\ pc' = [pc EXCEPT ![r] = "done"]
    /\ response' = [response EXCEPT ![r] = "redirect303"]
    /\ UNCHANGED <<method, text, ai, results, stats>>

\* The INSERT in the catch block rejects: nothing guards it, so the
\* rejection leaves fetch and no Response is returned.
FallbackFails(r) ==
    /\ pc[r] = "fallback"
    /\ writes' = Settle(r, "failed")
    /\ pc' = [pc EXCEPT ![r] = "raised"]
    /\ UNCHANGED <<store, method, text, ai, response, results, stats>>

\* Any other method: the SELECT is run and awaited.
GetRequest(r) ==
    /\ pc[r] = "idle"
    /\ method' = [method EXCEPT ![r] = "GET"]
    /\ pc' = [pc EXCEPT ![r] = "select"]
    /\ UNCHANGED <<store, text, writes, ai, response, results, stats>>

\* The SELECT resolves: the counts are computed and the page is returned.
SelectSucceeds(r) ==
    /\ pc[r] = "select"
    /\ results' = [results EXCEPT ![r] = SelectAllDesc(store)]
    /\ stats' = [stats EXCEPT ![r] = Summarize(SelectAllDesc(store))]
    /\ pc' = [pc EXCEPT ![r] = "done"]
    /\ response' = [response EXCEPT ![r] = "html200"]
    /\ UNCHANGED <<store, method, text, writes, ai>>

\* The SELECT rejects: the rejection leaves fetch.
SelectFails(r) ==
    /\ pc[r] = "select"
    /\ pc' = [pc EXCEPT ![r] = "raised"]
    /\ UNCHANGED <<store, method, text, writes, ai, response, results, stats>>

\* ----------------------------------------------------------- specifications

NotParsed == [done |-> FALSE, sentiment |-> NULL, summary |-> NULL]
NotTallied == [done |-> FALSE, positive |-> 0, negative |-> 0, neutral |-> 0]

ParserIdle == rawText = EmptyStr /\ parsed = NotParsed
DashboardIdle == rows = << >> /\ tally = NotTallied

Init == PipelineInit /\ ParserIdle /\ DashboardIdle

Next ==
    \/ \E r \in Reqs, t \in FormTexts : PostEmpty(r, t) /\ UNCHANGED <<parserVars, dashboardVars>>
    \/ \E r \in Reqs, t \in FormTexts : PostText(r, t) /\ UNCHANGED <<parserVars, dashboardVars>>
    \/ \E r \in Reqs, resp \in ModelResponses : AiSucceeds(r, resp) /\ UNCHANGED <<parserVars, dashboardVars>>
    \/ \E r \in Reqs : AiFails(r) /\ UNCHANGED <<parserVars, dashboardVars>>
    \/ \E r \in Reqs : InsertSucceeds(r) /\ UNCHANGED <<parserVars, dashboardVars>>
    \/ \E r \in Reqs : InsertFails(r) /\ UNCHANGED <<parserVars, dashboardVars>>
    \/ \E r \in Reqs : FallbackSucceeds(r) /\ UNCHANGED <<parserVars, dashboardVars>>
    \/ \E r \in Reqs : FallbackFails(r) /\ UNCHANGED <<parserVars, dashboardVars>>
    \/ \E r \in Reqs : GetRequest(r) /\ UNCHANGED <<parserVars, dashboardVars>>
    \/ \E r \in Reqs : SelectSucceeds(r) /\ UNCHANGED <<parserVars, dashboardVars>>
    \/ \E r \in Reqs : SelectFails(r) /\ UNCHANGED <<parserVars, dashboardVars>>

\* The request handler under concurrent requests.
Spec == Init /\ [][Next]_vars

\* Raw model outputs: every string of at most MaxLen characters over Chars.
Chars == {"a", "b", " ", "|"}
RawStrings == UNION {[1..n -> Chars] : n \in 0..MaxLen}

ParserInit == rawText \in RawStrings /\ parsed = NotParsed

\* Lines 32-36 applied to rawText.
ApplyParse ==
    /\ ~parsed.done
    /\ parsed' = [done |-> TRUE, sentiment |-> ParseSentiment(rawText),
                  summary |-> ParseSummary(rawText)]
    /\ UNCHANGED rawText

\* The parser on every raw model output.
InitParser == PipelineInit /\ ParserInit /\ DashboardIdle
NextParser == ApplyParse /\ UNCHANGED <<pipelineVars, dashboardVars>>
SpecParser == InitParser /\ [][NextParser]_vars

\* Sentiment values a row can hold: NULL, "", the three labels, "Error",
\* "Very Positive indeed", "positive", "Positive Negative", "Mixed".
SentimentPool ==
    { NULL, EmptyStr, Positive, Negative, Neutral, ErrorLabel,
      <<"V", "e", "r", "y", " ", "P", "o", "s", "i", "t", "i", "v", "e", " ",
        "i", "n", "d", "e", "e", "d">>,
      <<"p", "o", "s", "i", "t", "i", "v", "e">>,
      <<"P", "o", "s", "i", "t", "i", "v", "e", " ", "N", "e", "g", "a", "t", "i", "v", "e">>,
      <<"M", "i", "x", "e", "d">> }

\* Result sets of the SELECT: at most MaxRows rows, ids descending.
DashboardInit ==
    /\ \E n \in 0..MaxRows : \E f \in [1..n -> SentimentPool] :
           rows = [i \in 1..n |-> Row(n + 1 - i, <<"X">>, f[i], NULL)]
    /\ tally = NotTallied

\* Lines 60-62 applied to rows.
ApplyTally ==
    /\ ~tally.done
    /\ tally' = [done |-> TRUE,
                 positive |-> Summarize(rows).positive,
                 negative |-> Summarize(rows).negative,
                 neutral |-> Summarize(rows).neutral]
    /\ UNCHANGED rows

\* The dashboard counts on every result set.
InitDashboard == PipelineInit /\ ParserIdle /\ DashboardInit
NextDashboard == ApplyTally /\ UNCHANGED <<pipelineVars, parserVars>>
SpecDashboard == InitDashboard /\ [][NextDashboard]_vars

\* ------------------------------------------------------------------ claims

\* An intake request with feedback text, and the ways a request ends.
Intake(r) == method[r] = "POST" /\ text[r] \notin {NULL, EmptyStr}
EmptyIntake(r) == method[r] = "POST" /\ text[r] \in {NULL, EmptyStr}
Listing(r) == method[r] = "GET"
Finished(r) == pc[r] \in {"done", "raised"}

NewRows == store \ SeedRows
IsErrorRow(x) == x.sentiment = ErrorLabel /\ x.summary = ErrorSummary
NoWriteFailed ==
    \A r \in Reqs : \A i \in 1..Len(writes[r]) : writes[r][i].outcome # "failed"

\* C1: an intake request with feedback text never raises to its caller: once
\* it has ended, it has ended with the redirect, whatever the model call and
\* the store writes did.
C1_AlwaysRedirects ==
    \A r \in Reqs :
        Intake(r) /\ Finished(r) => pc[r] = "done" /\ response[r] = "redirect303"

\* C2: as long as no store write has failed, the rows added to the table are
\* exactly one per completed intake request, each with that request's text:
\* for every text, as many new rows hold it as completed intakes submitted it.
C2_OneRowPerIntake ==
    NoWriteFailed =>
        /\ Cardinality(NewRows)
             = Cardinality({r \in Reqs : Intake(r) /\ pc[r] = "done"})
        /\ \A t \in FormTexts :
             Cardinality({x \in NewRows : x.customer_text = t})
               = Cardinality({r \in Reqs : Intake(r) /\ pc[r] = "done" /\ text[r] = t})

\* Two concurrent intakes, one classified and one whose model call failed,
\* have both completed and each has added its row.
C2_Witness ==
    /\ NoWriteFailed
    /\ \E p, q \in Reqs :
         /\ Intake(p) /\ Intake(q) /\ pc[p] = "done" /\ pc[q] = "done"
         /\ text[p] # text[q]
         /\ ai[p] = <<"resolved">> /\ ai[q] = <<"rejected">>
         /\ \E x, y \in NewRows :
              /\ x.customer_text = text[p] /\ ~IsErrorRow(x)
              /\ y.customer_text = text[q] /\ IsErrorRow(y)
              /\ x.id > y.id

\* C3 as claimed: every intake request with feedback text makes exactly one
\* store write attempt: never two, and one once it has ended.
C3_ExactlyOneAttempt ==
    \A r \in Reqs :
        Intake(r) => /\ Len(writes[r]) <= 1
                     /\ Finished(r) => Len(writes[r]) = 1

IsErrorStatement(w) == w.sentiment = ErrorLabel /\ w.summary = ErrorSummary
IsClassifiedStatement(w) ==
    \E resp \in ModelResponses :
        w.sentiment = ParseSentiment(RawOf(resp)) /\ w.summary = ParseSummary(RawOf(resp))

\* C3 as amended: an intake request with feedback text makes one write attempt
\* unless that attempt, carrying the classified result, fails; then it makes a
\* second and last one, carrying the error sentinel. A request none of whose
\* writes failed has made at most one attempt, and exactly one once it ended.
C3_OneAttemptUnlessWriteFails ==
    \A r \in Reqs :
        Intake(r) =>
            /\ Len(writes[r]) <= 2
            /\ Finished(r) => Len(writes[r]) >= 1
            /\ \A i \in 1..Len(writes[r]) :
                 /\ writes[r][i].customer_text = text[r]
                 /\ IsErrorStatement(writes[r][i]) \/ IsClassifiedStatement(writes[r][i])
            /\ Len(writes[r]) = 2 =>
                 /\ writes[r][1].outcome = "failed"
                 /\ IsClassifiedStatement(writes[r][1])
                 /\ IsErrorStatement(writes[r][2])
            /\ (\A i \in 1..Len(writes[r]) : writes[r][i].outcome # "failed") =>
                 Len(writes[r]) <= 1

\* An intake whose classified write failed and whose sentinel write succeeded,
\* beside an intake that needed one attempt only.
C3_Witness ==
    \E p, q \in Reqs :
        /\ Intake(p) /\ pc[p] = "done" /\ Len(writes[p]) = 2
        /\ writes[p][1].outcome = "failed" /\ writes[p][2].outcome = "ok"
        /\ Intake(q) /\ pc[q] = "done" /\ Len(writes[q]) = 1

\* C4: when the model call of an intake request has failed and its store write
\* is accepted, that request has made one write only, and the row the write
\* adds has sentiment "Error", summary "AI analysis failed" and the request's text.
C4_ModelFailureWritesSentinel ==
    [][\A r \in Reqs :
          Intake(r) /\ ai[r] = <<"rejected">> /\ pc[r] # "done" /\ pc'[r] = "done" =>
              /\ Len(writes'[r]) = 1
              /\ \E x \in store' \ store :
                    /\ store' = store \cup {x}
                    /\ x.sentiment = ErrorLabel
                    /\ x.summary = ErrorSummary
                    /\ x.customer_text = text[r]]_vars

\* An intake whose model call failed has completed and its sentinel row is stored.
C4_Witness ==
    \E r \in Reqs :
        /\ Intake(r) /\ ai[r] = <<"rejected">> /\ pc[r] = "done"
        /\ writes[r][1].outcome = "ok"
        /\ \E x \in NewRows : IsErrorRow(x) /\ x.customer_text = text[r]

\* C5: an intake request whose feedback text is empty or absent makes no model
\* call and no store write and ends with the redirect, and the step that
\* handles it leaves the table unchanged.
C5_EmptyTextIsNoOp ==
    /\ [](\A r \in Reqs :
            EmptyIntake(r) =>
                /\ ai[r] = << >>
                /\ writes[r] = << >>
                /\ pc[r] = "done"
                /\ response[r] = "redirect303")
    /\ [][\A r \in Reqs :
            method[r] = "none" /\ method'[r] = "POST" /\ text'[r] \in {NULL, EmptyStr}
                => store' = store]_vars

\* Both an absent and an empty feedback field have been submitted and answered,
\* and the table still holds the seed rows only.
C5_Witness ==
    \E p, q \in Reqs :
        /\ EmptyIntake(p) /\ text[p] = NULL /\ response[p] = "redirect303"
        /\ EmptyIntake(q) /\ text[q] = EmptyStr /\ response[q] = "redirect303"
        /\ store = SeedRows

\* The parts of a raw output as the specification of the parser defines them:
\* part 0 is the text before the first '|', part 1 everything after it.
PipeCount(raw) == Cardinality({i \in 1..Len(raw) : raw[i] = "|"})
FirstPipe(raw) == CHOOSE i \in 1..Len(raw) : raw[i] = "|" /\ \A j \in 1..(i - 1) : raw[j] # "|"
Part0(raw) == IF PipeCount(raw) = 0 THEN raw ELSE SubSeq(raw, 1, FirstPipe(raw) - 1)
Part1(raw) == SubSeq(raw, FirstPipe(raw) + 1, Len(raw))

\* C6: when the raw output holds more than one '|', the summary is everything
\* after the first '|' (trimmed), further '|' characters and the text after
\* them included.
C6_SplitsAtFirstPipeOnly ==
    parsed.done /\ PipeCount(rawText) > 1 => parsed.summary = Trim(Part1(rawText))

\* C7: the parsed sentiment is part 0 trimmed when that is non-empty and
\* "Neutral" otherwise, so it is never the empty string.
C7_SentimentNeverEmpty ==
    parsed.done =>
        /\ parsed.sentiment =
             (IF Trim(Part0(rawText)) # EmptyStr THEN Trim(Part0(rawText)) ELSE Neutral)
        /\ parsed.sentiment # EmptyStr

\* C8: the parsed summary is part 1 trimmed when part 1 is present and
\* non-empty after trimming, and the whole untrimmed raw output otherwise.
\* Stated for raw outputs with at most one '|', where part 1 is the same
\* under every reading of the split.
C8_SummaryFallsBackToRaw ==
    parsed.done /\ PipeCount(rawText) <= 1 =>
        parsed.summary =
            (IF PipeCount(rawText) = 1 /\ Trim(Part1(rawText)) # EmptyStr
             THEN Trim(Part1(rawText))
             ELSE rawText)

\* s holds label as a contiguous run of characters, case-sensitively.
Contains(s, label) ==
    /\ s # NULL
    /\ \E i \in 0..Len(s) : \E j \in 1..(Len(s) + 1) :
          s = SubSeq(s, 1, i) \o label \o SubSeq(s, j, Len(s))

Matching(label) == {i \in 1..Len(rows) : Contains(rows[i].sentiment, label)}

\* C9: each dashboard count is the number of rows whose sentiment contains
\* the bucket's label as a case-sensitive substring; a row with a NULL,
\* "Error" or unrecognised sentiment is in no bucket and a row holding two
\* labels is in both.
C9_CountsAreSubstringMatches ==
    tally.done =>
        /\ tally.positive = Cardinality(Matching(Positive))
        /\ tally.negative = Cardinality(Matching(Negative))
        /\ tally.neutral = Cardinality(Matching(Neutral))

\* A result set with a NULL sentiment, an "Error" and a row holding two
\* labels: the first two are counted nowhere, the third twice, and the
\* counts do not add up to the number of rows.
C9_Witness ==
    /\ tally.done
    /\ \E i, j, k \in 1..Len(rows) :
          /\ rows[i].sentiment = NULL
          /\ rows[j].sentiment = ErrorLabel
          /\ Contains(rows[k].sentiment, Positive) /\ Contains(rows[k].sentiment, Negative)
    /\ tally.positive = 1 /\ tally.negative = 1 /\ tally.neutral = 0
    /\ tally.positive + tally.negative + tally.neutral # Len(rows)

IsDescending(rs) == \A i \in 1..(Len(rs) - 1) : rs[i].id > rs[i + 1].id

\* C10: no step changes or removes a row of the table, a listing request
\* leaves the table as it is, every listing is in descending id order, and
\* two listings with no write between them (the table only grows, so: two
\* listings of equally many rows) returned the same rows in the same order.
C10_RowsImmutable ==
    /\ [][\A x \in store : x \in store']_vars
    /\ [][\A r \in Reqs : Listing(r) /\ pc[r] # pc'[r] => store' = store]_vars
    /\ [](\A r \in Reqs : Listing(r) /\ pc[r] = "done" =>
            /\ IsDescending(results[r])
            /\ Len(results[r]) >= Cardinality(SeedRows))
    /\ [](\A p, q \in Reqs :
            /\ Listing(p) /\ pc[p] = "done"
            /\ Listing(q) /\ pc[q] = "done"
            /\ Len(results[p]) = Len(results[q])
            => results[p] = results[q])

\* Two listings have been answered with the same rows, newest first.
C10_Witness ==
    \E p, q \in Reqs :
        /\ p # q
        /\ Listing(p) /\ pc[p] = "done"
        /\ Listing(q) /\ pc[q] = "done"
        /\ results[p] = results[q]
        /\ Len(results[p]) = Cardinality(SeedRows)
        /\ results[p][1].id = Cardinality(SeedRows)

====
